---- MODULE Spec2Model ----
(***************************************************************************)
(* Model of scripts/analyze_grid_adjacency.py: the 10x5 board embedding of *)
(* the numbers 1..49, Chebyshev neighbourhoods (clipped and toroidal),     *)
(* the union neighbourhood of a draw, the per-pair hypergeometric          *)
(* statistics, their aggregation, and the analyze / main drivers.          *)
(*                                                                         *)
(* Python floats are modelled as exact rationals [n, d] in lowest terms;   *)
(* math.sqrt is kept symbolic (z_score records numerator and radicand).    *)
(* Python's 0-based list indexing is kept through At(seq, k).              *)
(***************************************************************************)
EXTENDS Integers, Sequences, FiniteSets, TLC

VARIABLES
    pc,              \* position of the running call
    outcome,         \* "running" | "returned" | "ZeroDivisionError"
    seed,            \* argument n of pos / seed of neighborhood
    other,           \* a second valid number (second neighborhood call)
    radius,          \* argument radius
    wrap,            \* argument wrap
    exclude_center,  \* argument exclude_center
    seeds,           \* argument seeds / prev_nums (list of numbers)
    curr_nums,       \* argument curr_nums (list of numbers)
    draws,           \* the loaded draws (list of records date, numbers)
    position,        \* value returned by pos
    number,          \* value returned by num
    cells,           \* value returned by neighborhood(seed, ...)
    cells_other,     \* value returned by neighborhood(other, ...)
    U,               \* value returned by union_neighborhood
    PR,              \* value returned by pair_stats
    i,               \* loop index of analyze (Python index)
    pairs,           \* local list pairs of analyze
    S,               \* value returned by summarize / analyze
    entry,           \* which function the caller invoked: "analyze" | "main"
    k,               \* index into configs of main's loop
    printed,         \* list of the summaries main printed
    example          \* list of the pair_stats main printed for the example pair

vars == << pc, outcome, seed, other, radius, wrap, exclude_center, seeds,
           curr_nums, draws, position, number, cells, cells_other, U, PR,
           i, pairs, S, entry, k, printed, example >>

----------------------------------------------------------------------------
(* Program constants *)

ROWS == 10

COLS == 5

POP_SIZE == 49

(* Bounds of the model *)

\* how far outside 1..49 the numbers handed to pos / neighborhood range
OutOfRange == 3

\* longest seed list handed to union_neighborhood
MaxSeeds == 2

\* longest draw sequence handed to analyze / main
MaxDraws == 3

None == "None"

Numbers == 1..POP_SIZE

\* radii of the runs (docstring: r in {1,2}; main's configs)
Radii == {1, 2}

NumberInputs == (1 - OutOfRange)..(POP_SIZE + OutOfRange)

----------------------------------------------------------------------------
(* Python builtins *)

Abs(x) == IF x < 0 THEN -x ELSE x

Min(x, y) == IF x <= y THEN x ELSE y

Max(x, y) == IF x >= y THEN x ELSE y

\* seq[k] with Python's 0-based index
At(seq, idx) == seq[idx + 1]

Range(seq) == { seq[j] : j \in 1..Len(seq) }

----------------------------------------------------------------------------
(* Grid mapping *)

\* pos without the "- 1": rows 0..9, column shifted at multiples of 10
pos_off_by_one(n) == << n % 10, (n \div 10) + 1 >>

\* pos(n): (r, c) with Python's floor division and modulo
pos(n) ==
    LET c == ((n - 1) \div 10) + 1
        r == ((n - 1) % 10) + 1
    IN  << r, c >>

num(r, c) == (c - 1) * 10 + r

\* chebyshev_torus with the row difference taken without abs
chebyshev_torus_no_abs(a, b) ==
    LET dr0 == a[1] - b[1]
        dc0 == Abs(a[2] - b[2])
        dr  == Min(dr0, ROWS - dr0)
        dc  == Min(dc0, COLS - dc0)
    IN  Max(dr, dc)

chebyshev_torus(a, b) ==
    LET dr0 == Abs(a[1] - b[1])
        dc0 == Abs(a[2] - b[2])
        dr  == Min(dr0, ROWS - dr0)
        dc  == Min(dc0, COLS - dc0)
    IN  Max(dr, dc)

\* the wrap branch of neighborhood: every n of range(1, 50) within radius
neighborhood_wrap(r0, c0, rad) ==
    { n \in 1..49 : chebyshev_torus(<< r0, c0 >>, pos(n)) <= rad }

\* the clipped branch keeping every cell of the rectangle (no 1..49 filter)
neighborhood_clipped_unfiltered(r0, c0, rad) ==
    LET rmin == Max(1, r0 - rad)
        rmax == Min(ROWS, r0 + rad)
        cmin == Max(1, c0 - rad)
        cmax == Min(COLS, c0 + rad)
    IN  { num(r, c) : r \in rmin..rmax, c \in cmin..cmax }

\* the non-wrap branch of neighborhood: the clipped bounding rectangle
neighborhood_clipped(r0, c0, rad) ==
    LET rmin == Max(1, r0 - rad)
        rmax == Min(ROWS, r0 + rad)
        cmin == Max(1, c0 - rad)
        cmax == Min(COLS, c0 + rad)
        rect == { << r, c >> : r \in rmin..rmax, c \in cmin..cmax }
    IN  { num(rc[1], rc[2]) : rc \in { q \in rect : 1 <= num(q[1], q[2])
                                                  /\ num(q[1], q[2]) <= 49 } }

neighborhood(sd, rad, wr) ==
    LET r0 == pos(sd)[1]
        c0 == pos(sd)[2]
    IN  IF wr THEN neighborhood_wrap(r0, c0, rad)
              ELSE neighborhood_clipped(r0, c0, rad)

----------------------------------------------------------------------------
(* Specification SpecGrid: pos applied to a number, num to its result *)

\* the arguments of the running call: no function of the script assigns them
args == << seed, other, seeds, curr_nums, draws, entry >>

\* radius, wrap, exclude_center: arguments, and the loop variables of main
cfg == << radius, wrap, exclude_center >>

gridRes == << position, number >>

nbrRes == << cells, cells_other >>

pairRes == << U, PR >>

runRes == << i, pairs, S, k, printed, example >>

InitGrid ==
    /\ pc = "pos"
    /\ outcome = "running"
    /\ seed \in NumberInputs
    /\ other = None /\ radius = None /\ wrap = None /\ exclude_center = None
    /\ seeds = None /\ curr_nums = None /\ draws = None /\ entry = None
    /\ position = None /\ number = None /\ cells = None /\ cells_other = None
    /\ U = None /\ PR = None
    /\ i = None /\ pairs = None /\ S = None /\ k = None
    /\ printed = None /\ example = None

CallPos ==
    /\ pc = "pos"
    /\ position' = pos(seed)
    /\ pc' = "num"
    /\ UNCHANGED << outcome, args, cfg, number, nbrRes, pairRes, runRes >>

CallNum ==
    /\ pc = "num"
    /\ number' = num(position[1], position[2])
    /\ pc' = "done"
    /\ outcome' = "returned"
    /\ UNCHANGED << args, cfg, position, nbrRes, pairRes, runRes >>

NextGrid == CallPos \/ CallNum

SpecGrid == InitGrid /\ [][NextGrid]_vars

\* C7: for every n in 1..49 num(pos(n)) = n, pos(n) has its row in 1..10 and
\* its column in 1..5, pos is injective on 1..49, and no n in 1..49 is mapped
\* to (row 10, column 5), the cell of the invalid number 50.
C7_RoundTrip ==
    /\ (pc \in {"num", "done"} /\ seed \in Numbers) =>
          /\ position[1] \in 1..ROWS
          /\ position[2] \in 1..COLS
          /\ position # << ROWS, COLS >>
          /\ \A m \in Numbers : pos(m) = position => m = seed
    /\ (pc = "done" /\ seed \in Numbers) => number = seed

C7_Witness ==
    pc = "done" /\ seed = 40 /\ position = << 10, 4 >> /\ number = 40

----------------------------------------------------------------------------
(* Specification SpecNbr: neighborhood applied to a seed, then to a second *)
(* number under the same radius and topology                               *)

InitNbr ==
    /\ pc = "neighborhood"
    /\ outcome = "running"
    /\ seed \in NumberInputs
    /\ other \in Numbers
    /\ radius \in Radii
    /\ wrap \in BOOLEAN
    /\ exclude_center = None
    /\ seeds = None /\ curr_nums = None /\ draws = None /\ entry = None
    /\ position = None /\ number = None /\ cells = None /\ cells_other = None
    /\ U = None /\ PR = None
    /\ i = None /\ pairs = None /\ S = None /\ k = None
    /\ printed = None /\ example = None

\* neighborhood(seed, radius, wrap): r0, c0 = pos(seed), then the cells; no
\* statement of pos or neighborhood raises for an integer seed
CallNeighborhood ==
    /\ pc = "neighborhood"
    /\ position' = pos(seed)
    /\ cells' = neighborhood(seed, radius, wrap)
    /\ outcome' = "returned"
    /\ pc' = "neighborhood_other"
    /\ UNCHANGED << args, cfg, number, cells_other, pairRes, runRes >>

CallNeighborhoodOther ==
    /\ pc = "neighborhood_other"
    /\ cells_other' = neighborhood(other, radius, wrap)
    /\ pc' = "done"
    /\ UNCHANGED << outcome, args, cfg, gridRes, cells, pairRes, runRes >>

NextNbr == CallNeighborhood \/ CallNeighborhoodOther

SpecNbr == InitNbr /\ [][NextNbr]_vars

\* C1: neighbourhood membership is symmetric: for a, b in 1..49, radius in
\* {1,2} and either topology, b is in neighborhood(a) iff a is in
\* neighborhood(b).
C1_Symmetry ==
    (pc = "done" /\ seed \in Numbers) =>
        (other \in cells <=> seed \in cells_other)

C1_Witness ==
    /\ pc = "done" /\ seed = 1 /\ other = 41 /\ wrap = TRUE /\ radius = 1
    /\ other \in cells /\ seed \in cells_other

\* C2: a seed outside 1..49 handed to pos / neighborhood fails with an
\* InvalidNumber error: no position and no neighbourhood set is returned.
C2_InvalidNumberRaised ==
    (pc # "neighborhood" /\ seed \notin Numbers) =>
        (outcome = "InvalidNumber" /\ position = None /\ cells = None)

\* C5: without wrap, for a seed in 1..49 the rectangle enumeration returns
\* exactly the numbers of 1..49 at plain Chebyshev distance <= radius of the
\* seed, never 50; neighborhood(1, 1, no wrap) = {1, 2, 11, 12}.
C5_ClippedIsChebyshev ==
    (pc # "neighborhood" /\ wrap = FALSE /\ seed \in Numbers) =>
        /\ cells = { n \in Numbers :
                       Max(Abs(pos(n)[1] - pos(seed)[1]),
                           Abs(pos(n)[2] - pos(seed)[2])) <= radius }
        /\ 50 \notin cells
        /\ (seed = 1 /\ radius = 1) => cells = {1, 2, 11, 12}

C5_Witness ==
    /\ pc = "done" /\ wrap = FALSE /\ seed = 49 /\ radius = 1
    /\ cells = {38, 39, 40, 48, 49}

----------------------------------------------------------------------------
(* Union neighbourhood *)

RECURSIVE union_loop(_, _, _, _)
\* the loop "for s in seeds: U |= neighborhood(s, radius, wrap)" from U0
union_loop(U0, sds, rad, wr) ==
    IF sds = << >> THEN U0
    ELSE union_loop(U0 \cup neighborhood(Head(sds), rad, wr), Tail(sds), rad, wr)

\* union_neighborhood removing each seed from its own neighbourhood only
union_neighborhood_own_center(sds, rad, wr, excl) ==
    IF excl
    THEN UNION { neighborhood(s, rad, wr) \ {s} : s \in Range(sds) }
    ELSE union_loop({}, sds, rad, wr)

union_neighborhood(sds, rad, wr, excl) ==
    LET U1 == union_loop({}, sds, rad, wr)
    IN  IF excl THEN U1 \ Range(sds) ELSE U1

(* Specification SpecUnion: union_neighborhood applied to a seed list *)

\* number lists as load_draws builds them, sorted(set(nums)) of numbers in
\* 1..49: strictly ascending
IsSortedSet(ns) == \A j \in 1..(Len(ns) - 1) : ns[j] < ns[j + 1]

SeedLists ==
    UNION { { ns \in [1..m -> Numbers] : IsSortedSet(ns) } : m \in 0..MaxSeeds }

InitUnion ==
    /\ pc = "union_neighborhood"
    /\ outcome = "running"
    /\ seeds \in SeedLists
    /\ radius \in Radii
    /\ wrap \in BOOLEAN
    /\ exclude_center \in BOOLEAN
    /\ seed = None /\ other = None
    /\ curr_nums = None /\ draws = None /\ entry = None
    /\ position = None /\ number = None /\ cells = None /\ cells_other = None
    /\ U = None /\ PR = None
    /\ i = None /\ pairs = None /\ S = None /\ k = None
    /\ printed = None /\ example = None

CallUnionNeighborhood ==
    /\ pc = "union_neighborhood"
    /\ U' = union_neighborhood(seeds, radius, wrap, exclude_center)
    /\ outcome' = "returned"
    /\ pc' = "done"
    /\ UNCHANGED << args, cfg, gridRes, nbrRes, PR, runRes >>

NextUnion == CallUnionNeighborhood

SpecUnion == InitUnion /\ [][NextUnion]_vars

\* C4: with exclude_center the union U is disjoint from the seeds (a seed
\* lying in another seed's neighbourhood is removed too), and U is the
\* include-center union minus the seeds.
C4_ExclusionDisjoint ==
    (pc = "done" /\ exclude_center = TRUE) =>
        /\ U \cap Range(seeds) = {}
        /\ U = union_neighborhood(seeds, radius, wrap, FALSE) \ Range(seeds)

\* seeds 1 and 2 are neighbours of each other; both are removed
C4_Witness ==
    /\ pc = "done" /\ exclude_center = TRUE /\ wrap = FALSE /\ radius = 1
    /\ seeds = << 1, 2 >>
    /\ U = {3, 11, 12, 13}

----------------------------------------------------------------------------
(* Float arithmetic, as exact rationals [n |-> numerator, d |-> denominator] *)
(* in lowest terms with d > 0                                               *)

RECURSIVE GCD(_, _)
GCD(a, b) == IF b = 0 THEN a ELSE GCD(b, a % b)

Rat(nm, dn) ==
    LET g == GCD(Abs(nm), dn)
    IN  [n |-> nm \div g, d |-> dn \div g]

RatOfInt(a) == [n |-> a, d |-> 1]

\* a / b on two ints, b > 0
RatDiv(a, b) == Rat(a, b)

RatMul(x, y) ==
    LET g1 == GCD(Abs(x.n), y.d)
        g2 == GCD(Abs(y.n), x.d)
    IN  Rat((x.n \div g1) * (y.n \div g2), (x.d \div g2) * (y.d \div g1))

RatAdd(x, y) ==
    LET g == GCD(x.d, y.d)
        l == (x.d \div g) * y.d
    IN  Rat(x.n * (l \div x.d) + y.n * (l \div y.d), l)

RatSub(x, y) == RatAdd(x, [n |-> -y.n, d |-> y.d])

RatPositive(x) == x.n > 0

----------------------------------------------------------------------------
(* Pair statistic *)

\* sum(1 for n in curr_nums if n in U)
count_hits(nums, UU) == Cardinality({ j \in 1..Len(nums) : nums[j] \in UU })

\* pair_stats with the binomial variance n p (1 - p): the finite-population
\* factor (N - n) / (N - 1) left out
pair_stats_binomial(prev_nums, nums, rad, wr, excl) ==
    LET UU   == union_neighborhood(prev_nums, rad, wr, excl)
        K    == Cardinality(UU)
        hits == count_hits(nums, UU)
        N    == POP_SIZE
        n    == Len(nums)
        p    == RatDiv(K, N)
        exp  == RatMul(RatOfInt(n), p)
        var  == RatMul(RatMul(RatOfInt(n), p), RatSub(RatOfInt(1), p))
    IN  [U_size |-> K, hits |-> hits, exp |-> exp, var |-> var]

pair_stats(prev_nums, nums, rad, wr, excl) ==
    LET UU   == union_neighborhood(prev_nums, rad, wr, excl)
        K    == Cardinality(UU)
        hits == count_hits(nums, UU)
        N    == POP_SIZE
        n    == Len(nums)
        p    == RatDiv(K, N)
        exp  == RatMul(RatOfInt(n), p)
        var  == RatMul(RatMul(RatMul(RatOfInt(n), p), RatSub(RatOfInt(1), p)),
                       RatDiv(N - n, N - 1))
    IN  [U_size |-> K, hits |-> hits, exp |-> exp, var |-> var]

(* Specification SpecPair: pair_stats applied to a previous and a current *)
(* number list                                                            *)

\* number lists of draws: 7 numbers (6 drawn + special), and the extremes a
\* record of the file may hold (1 number, all 49)
SampleNumbers ==
    { << 1, 5 >>,
      << 1, 6 >>,
      << 25 >>,
      << 1, 2, 3, 4, 5, 6, 7 >>,
      << 3, 11, 17, 24, 32, 40, 49 >>,
      << 5, 12, 13, 22, 28, 36, 44 >>,
      [j \in 1..POP_SIZE |-> j] }

\* longest previous list of SpecPair drawn from all of 1..49
MaxPrev == 1

PrevLists ==
    SampleNumbers \cup
    UNION { { ns \in [1..m -> Numbers] : IsSortedSet(ns) } : m \in 1..MaxPrev }

InitPair ==
    /\ pc = "pair_stats"
    /\ outcome = "running"
    /\ seeds \in PrevLists
    /\ curr_nums \in SampleNumbers
    /\ radius \in Radii
    /\ wrap \in BOOLEAN
    /\ exclude_center \in BOOLEAN
    /\ seed = None /\ other = None
    /\ draws = None /\ entry = None
    /\ position = None /\ number = None /\ cells = None /\ cells_other = None
    /\ U = None /\ PR = None
    /\ i = None /\ pairs = None /\ S = None /\ k = None
    /\ printed = None /\ example = None

CallPairStats ==
    /\ pc = "pair_stats"
    /\ U' = union_neighborhood(seeds, radius, wrap, exclude_center)
    /\ PR' = pair_stats(seeds, curr_nums, radius, wrap, exclude_center)
    /\ outcome' = "returned"
    /\ pc' = "done"
    /\ UNCHANGED << args, cfg, gridRes, nbrRes, runRes >>

NextPair == CallPairStats

SpecPair == InitPair /\ [][NextPair]_vars

\* the moments and counts of C8 that do not depend on the worked example
C8_Moments ==
    LET K == Cardinality(U)
        n == Len(curr_nums)
    IN  /\ PR.U_size = K
        /\ 0 <= K /\ K <= 49
        /\ PR.hits = Cardinality(Range(curr_nums) \cap U)
        /\ 0 <= PR.hits /\ PR.hits <= Min(n, K)
        /\ PR.exp = Rat(n * K, 49)
        /\ PR.var = Rat(n * K * (49 - K) * (49 - n), 49 * 49 * 48)

\* x rounded to 4 decimals is t / 10000
RoundsTo4(x, t) ==
    /\ (10 * t - 5) * x.d <= 100000 * x.n
    /\ 100000 * x.n < (10 * t + 5) * x.d

\* C8 (as stated): K = |U| in 0..49, hit_count = |C \cap U| within
\* 0..min(|C|, K), expected_hits = n K / 49, variance_hits =
\* n K (49 - K)(49 - n) / (49 * 49 * 48); K = 10, n = 7 gives expected 10/7
\* (about 1.4286) and variance about 0.9820.
C8_Original ==
    pc = "done" =>
        /\ C8_Moments
        /\ (PR.U_size = 10 /\ Len(curr_nums) = 7) =>
              /\ PR.exp = [n |-> 10, d |-> 7]
              /\ RoundsTo4(PR.exp, 14286)
              /\ RoundsTo4(PR.var, 9820)

\* C8 (amended): the same, with the variance for K = 10, n = 7 being
\* 195/196, about 0.9949.
C8_PairStats ==
    pc = "done" =>
        /\ C8_Moments
        /\ (PR.U_size = 10 /\ Len(curr_nums) = 7) =>
              /\ PR.exp = [n |-> 10, d |-> 7]
              /\ RoundsTo4(PR.exp, 14286)
              /\ PR.var = [n |-> 195, d |-> 196]
              /\ RoundsTo4(PR.var, 9949)

C8_Witness ==
    /\ pc = "done" /\ seeds = << 1, 5 >> /\ radius = 1 /\ wrap = FALSE
    /\ exclude_center = FALSE
    /\ curr_nums = << 1, 2, 3, 4, 5, 6, 7 >>
    /\ PR.U_size = 10 /\ PR.hits = 5

----------------------------------------------------------------------------
(* Aggregation *)

\* float("nan")
NaN == [nan |-> TRUE]

\* x / math.sqrt(v), v > 0: the quotient, kept as its numerator and radicand
DivSqrt(x, v) == [nan |-> FALSE, numer |-> x, radicand |-> v]

RECURSIVE SumInt(_)
\* sum(...) over ints, from 0
SumInt(xs) == IF xs = << >> THEN 0 ELSE xs[1] + SumInt(Tail(xs))

RECURSIVE SumRat(_)
\* sum(...) over floats, from 0
SumRat(xs) == IF xs = << >> THEN RatOfInt(0) ELSE RatAdd(xs[1], SumRat(Tail(xs)))

Column(ps, f) == [j \in 1..Len(ps) |-> ps[j][f]]

\* Counter.update of one value: bump its entry, or append a new entry (a
\* Counter keeps its keys in first-seen order)
counter_add(cnt, v) ==
    IF \E j \in 1..Len(cnt) : cnt[j][1] = v
    THEN [j \in 1..Len(cnt) |->
            IF cnt[j][1] = v THEN << v, cnt[j][2] + 1 >> ELSE cnt[j]]
    ELSE Append(cnt, << v, 1 >>)

RECURSIVE counter_from(_, _)
counter_from(cnt, vs) ==
    IF vs = << >> THEN cnt
    ELSE counter_from(counter_add(cnt, Head(vs)), Tail(vs))

\* Counter(p["hits"] for p in pairs).items()
Counter(vs) == counter_from(<< >>, vs)

RECURSIVE sorted_items(_)
\* sorted(hist.items()): ascending by key (keys are distinct)
sorted_items(items) ==
    IF items = << >> THEN << >>
    ELSE LET lo == CHOOSE j \in 1..Len(items) :
                       \A l \in 1..Len(items) : items[j][1] <= items[l][1]
             rest == [l \in 1..(Len(items) - 1) |->
                        IF l < lo THEN items[l] ELSE items[l + 1]]
         IN  << items[lo] >> \o sorted_items(rest)

\* hist_hits left in the Counter's first-seen order (no sorted)
hist_hits_unsorted(ps) == Counter(Column(ps, "hits"))

\* "hist_hits": dict(sorted(hist.items()))
hist_hits(ps) == sorted_items(Counter(Column(ps, "hits")))

\* z coerced to 0 when the variance is not positive
z_score_zero(total_hits, total_exp, total_var) ==
    IF RatPositive(total_var)
    THEN DivSqrt(RatSub(RatOfInt(total_hits), total_exp), total_var)
    ELSE DivSqrt(RatOfInt(0), RatOfInt(1))

\* z = (total_hits - total_exp) / math.sqrt(total_var) if total_var > 0
\*     else float("nan")
z_score(total_hits, total_exp, total_var) ==
    IF RatPositive(total_var)
    THEN DivSqrt(RatSub(RatOfInt(total_hits), total_exp), total_var)
    ELSE NaN

\* summarize raises at "/ len(pairs)" (line 122) when pairs is empty
summarize_raises(ps) == Len(ps) = 0

\* the dict summarize returns, for a non-empty pairs
summarize(ps) ==
    LET total_hits == SumInt(Column(ps, "hits"))
        total_exp  == SumRat(Column(ps, "exp"))
        total_var  == SumRat(Column(ps, "var"))
        z          == z_score(total_hits, total_exp, total_var)
        avg_U      == Rat(SumInt(Column(ps, "U_size")), Len(ps))
    IN  [ pairs             |-> Len(ps),
          total_hits        |-> total_hits,
          total_exp         |-> total_exp,
          total_var         |-> total_var,
          z_score           |-> z,
          avg_hits_per_pair |-> Rat(total_hits, Len(ps)),
          avg_exp_per_pair  |-> RatMul(total_exp, Rat(1, Len(ps))),
          avg_U_size        |-> avg_U,
          avg_U_cover_pct   |-> RatMul(RatMul(RatOfInt(100), avg_U),
                                       Rat(1, POP_SIZE)),
          hist_hits         |-> hist_hits(ps) ]

\* theoretical_single_seed_size: mean of len(neighborhood(s)) over range(1, 50)
theoretical_single_seed_size(rad, wr) ==
    LET sizes == [s \in 1..49 |-> Cardinality(neighborhood(s, rad, wr))]
    IN  Rat(SumInt(sizes), Len(sizes))

\* theoretical_single_seed_size for every (radius, wrap) of the runs; it
\* depends on nothing else, so it is evaluated once
theory_single_seed ==
    [rad \in Radii, wr \in BOOLEAN |-> theoretical_single_seed_size(rad, wr)]

(* Specification SpecSummarize: summarize applied to a list of PairResults *)

\* longest list of PairResults handed to summarize
MaxPairs == 4

\* PairResults of real pairs: hits 0, 1, 2 and 5 with K = 10, and the two
\* flat ones, K = 49 (toroidal radius 2) and K = 0 (all 49 seeds excluded)
PairPool ==
    { pair_stats(<< 1, 5 >>, c, 1, FALSE, FALSE) :
        c \in { << 25 >>, << 3, 11, 17, 24, 32, 40, 49 >>,
                << 5, 12, 13, 22, 28, 36, 44 >>, << 1, 2, 3, 4, 5, 6, 7 >> } }
    \cup { pair_stats(<< 1, 6 >>, << 1, 2, 3, 4, 5, 6, 7 >>, 2, TRUE, FALSE),
           pair_stats([j \in 1..POP_SIZE |-> j], << 25 >>, 1, FALSE, TRUE) }

PairSequences == UNION { [1..m -> PairPool] : m \in 0..MaxPairs }

InitSummarize ==
    /\ pc = "summarize"
    /\ outcome = "running"
    /\ pairs \in PairSequences
    /\ seed = None /\ other = None /\ seeds = None /\ curr_nums = None
    /\ draws = None /\ entry = None
    /\ radius = None /\ wrap = None /\ exclude_center = None
    /\ position = None /\ number = None /\ cells = None /\ cells_other = None
    /\ U = None /\ PR = None
    /\ i = None /\ S = None /\ k = None
    /\ printed = None /\ example = None

CallSummarize ==
    /\ pc = "summarize"
    /\ IF summarize_raises(pairs)
       THEN /\ outcome' = "ZeroDivisionError"
            /\ UNCHANGED S
       ELSE /\ S' = summarize(pairs)
            /\ outcome' = "returned"
    /\ pc' = "done"
    /\ UNCHANGED << args, cfg, gridRes, nbrRes, pairRes, i, pairs, k, printed,
                    example >>

NextSummarize == CallSummarize

SpecSummarize == InitSummarize /\ [][NextSummarize]_vars

Summarized == pc = "done" /\ outcome = "returned"

\* C6: z_score is (total_hits - total_exp) / sqrt(total_var) when
\* total_var > 0 and not-a-number otherwise, never 0 or infinity; the
\* variance is not positive when every pair has K = 0 or K = 49.
C6_ZScore ==
    Summarized =>
        /\ RatPositive(S.total_var) =>
              /\ S.z_score.nan = FALSE
              /\ S.z_score.numer = RatSub(RatOfInt(S.total_hits), S.total_exp)
              /\ S.z_score.radicand = S.total_var
        /\ ~RatPositive(S.total_var) => S.z_score = NaN
        /\ (\A j \in 1..Len(pairs) : pairs[j].U_size \in {0, 49}) =>
              S.z_score = NaN

C6_Witness ==
    /\ Summarized
    /\ Len(pairs) = 2 /\ pairs[1].U_size = 49 /\ pairs[2].U_size = 0
    /\ S.total_var = RatOfInt(0)
    /\ S.z_score = NaN

Perms(m) == { f \in [1..m -> 1..m] : \A a, b \in 1..m : f[a] = f[b] => a = b }

\* C9: the histogram maps each observed hit_count to the number of pairs
\* with it, keys ascending, no key of frequency 0; the frequencies sum to
\* pair_count, the sum of key * frequency is total_hits, and neither
\* total_hits nor the histogram depends on the order of the pairs.
C9_Histogram ==
    Summarized =>
        LET h  == S.hist_hits
            hs == Column(pairs, "hits")
        IN  /\ \A a \in 1..(Len(h) - 1) : h[a][1] < h[a + 1][1]
            /\ { h[a][1] : a \in 1..Len(h) } = Range(hs)
            /\ \A a \in 1..Len(h) :
                  /\ h[a][2] = Cardinality({ j \in 1..Len(hs) : hs[j] = h[a][1] })
                  /\ h[a][2] > 0
            /\ S.pairs = Len(pairs)
            /\ SumInt([a \in 1..Len(h) |-> h[a][2]]) = S.pairs
            /\ SumInt([a \in 1..Len(h) |-> h[a][1] * h[a][2]]) = S.total_hits
            /\ \A f \in Perms(Len(pairs)) :
                  LET q == [j \in 1..Len(pairs) |-> pairs[f[j]]]
                  IN  /\ hist_hits(q) = h
                      /\ SumInt(Column(q, "hits")) = S.total_hits

\* hit counts 2, 1, 0, 1 over four pairs
C9_Witness ==
    /\ Summarized
    /\ Column(pairs, "hits") = << 2, 1, 0, 1 >>
    /\ S.hist_hits = << << 0, 1 >>, << 1, 2 >>, << 2, 1 >> >>
    /\ S.total_hits = 4

----------------------------------------------------------------------------
(* analyze and main *)

\* the loop body of analyze with previous and current swapped
analyze_pair_swapped(ds, idx, rad, wr, excl) ==
    pair_stats(At(ds, idx).numbers, At(ds, idx - 1).numbers, rad, wr, excl)

\* the loop body of analyze for Python index idx:
\* prev = draws[i-1]["numbers"]; curr = draws[i]["numbers"]; pair_stats(...)
analyze_pair(ds, idx, rad, wr, excl) ==
    pair_stats(At(ds, idx - 1).numbers, At(ds, idx).numbers, rad, wr, excl)

\* main's configs: (name, wrap, r, excl)
configs ==
    << << "no-wrap r<=2 include center", FALSE, 2, FALSE >>,
       << "no-wrap r<=2 exclude center", FALSE, 2, TRUE >>,
       << "no-wrap r<=1 include center", FALSE, 1, FALSE >>,
       << "wrap(3x3) r<=2 include center", TRUE, 2, FALSE >>,
       << "wrap(3x3) r<=2 exclude center", TRUE, 2, TRUE >>,
       << "wrap(3x3) r<=1 include center", TRUE, 1, FALSE >> >>

\* the example of main: the first consecutive pair dated 2025-10-23 and
\* 2025-10-25, under no-wrap and wrap at radius 2, centers included
main_example(ds) ==
    LET hitsAt == { idx \in 1..(Len(ds) - 1) :
                      /\ At(ds, idx - 1).date = "2025-10-23"
                      /\ At(ds, idx).date = "2025-10-25" }
    IN  IF hitsAt = {} THEN << >>
        ELSE LET idx == CHOOSE a \in hitsAt : \A b \in hitsAt : a <= b
             IN  << analyze_pair(ds, idx, 2, FALSE, FALSE),
                    analyze_pair(ds, idx, 2, TRUE, FALSE) >>

(* Specification Spec: analyze called on a draw sequence, or main run on it *)

\* dates of the loaded draws, ascending as load_draws sorts them
Dates ==
    << "2025-10-21", "2025-10-23", "2025-10-25", "2025-10-28", "2025-10-30",
       "2025-11-01", "2025-11-04", "2025-11-06" >>

\* number lists of the loaded draws
DrawNumbers ==
    { << 1, 6 >>,
      << 1, 2, 3, 4, 5, 6, 7 >>,
      << 3, 11, 17, 24, 32, 40, 49 >>,
      << 25 >> }

\* what load_draws returns: records sorted by date, each with a non-empty
\* sorted list of distinct numbers of 1..49
DrawSequences ==
    UNION { { [j \in 1..m |-> [date |-> Dates[j], numbers |-> ns[j]]] :
                ns \in [1..m -> DrawNumbers] } : m \in 0..MaxDraws }

Init ==
    /\ draws \in DrawSequences
    /\ entry \in {"analyze", "main"}
    /\ outcome = "running"
    /\ seed = None /\ other = None /\ seeds = None /\ curr_nums = None
    /\ position = None /\ number = None /\ cells = None /\ cells_other = None
    /\ U = None /\ PR = None
    /\ S = None /\ k = None /\ example = None
    /\ IF entry = "analyze"
       THEN /\ pc = "analyze_loop"
            /\ radius \in Radii /\ wrap \in BOOLEAN /\ exclude_center \in BOOLEAN
            /\ i = 1 /\ pairs = << >>
            /\ printed = None
       ELSE /\ pc = "main"
            /\ radius = None /\ wrap = None /\ exclude_center = None
            /\ i = None /\ pairs = None
            /\ printed = << >>

\* main, lines 153-166: the guard on fewer than two draws, else the first
\* configuration's call of analyze
MainStart ==
    /\ pc = "main"
    /\ IF Len(draws) < 2
       THEN /\ pc' = "done"
            /\ outcome' = "returned"
            /\ UNCHANGED << cfg, i, pairs, k >>
       ELSE /\ k' = 0
            /\ wrap' = At(configs, 0)[2]
            /\ radius' = At(configs, 0)[3]
            /\ exclude_center' = At(configs, 0)[4]
            /\ i' = 1
            /\ pairs' = << >>
            /\ pc' = "analyze_loop"
            /\ UNCHANGED outcome
    /\ UNCHANGED << args, gridRes, nbrRes, pairRes, S, printed, example >>

\* analyze, lines 144-147: one iteration of "for i in range(1, len(draws))"
AnalyzePair ==
    /\ pc = "analyze_loop"
    /\ i < Len(draws)
    /\ pairs' = Append(pairs, analyze_pair(draws, i, radius, wrap, exclude_center))
    /\ i' = i + 1
    /\ UNCHANGED << pc, outcome, args, cfg, gridRes, nbrRes, pairRes, S, k,
                    printed, example >>

\* analyze, lines 148-150, after the loop: summarize(pairs), which raises
\* ZeroDivisionError on an empty pairs, then the theoretical size
AnalyzeSummarize ==
    /\ pc = "analyze_loop"
    /\ ~(i < Len(draws))
    /\ IF summarize_raises(pairs)
       THEN /\ outcome' = "ZeroDivisionError"
            /\ pc' = "done"
            /\ UNCHANGED S
       ELSE /\ S' = summarize(pairs) @@
                    [theory_single_seed |-> theory_single_seed[radius, wrap]]
            /\ pc' = IF entry = "main" THEN "main_print" ELSE "done"
            /\ outcome' = IF entry = "main" THEN outcome ELSE "returned"
    /\ UNCHANGED << args, cfg, gridRes, nbrRes, pairRes, i, pairs, k, printed,
                    example >>

\* main, lines 166-172: print the summary, go on to the next configuration
MainPrint ==
    /\ pc = "main_print"
    /\ printed' = Append(printed, S)
    /\ IF k + 1 < Len(configs)
       THEN /\ k' = k + 1
            /\ wrap' = At(configs, k + 1)[2]
            /\ radius' = At(configs, k + 1)[3]
            /\ exclude_center' = At(configs, k + 1)[4]
            /\ i' = 1
            /\ pairs' = << >>
            /\ pc' = "analyze_loop"
       ELSE /\ pc' = "main_example"
            /\ UNCHANGED << cfg, i, pairs, k >>
    /\ UNCHANGED << outcome, args, gridRes, nbrRes, pairRes, S, example >>

\* main, lines 175-184: the example pair
MainExample ==
    /\ pc = "main_example"
    /\ example' = main_example(draws)
    /\ pc' = "done"
    /\ outcome' = "returned"
    /\ UNCHANGED << args, cfg, gridRes, nbrRes, pairRes, i, pairs, S, k,
                    printed >>

Next ==
    \/ MainStart
    \/ AnalyzePair
    \/ AnalyzeSummarize
    \/ MainPrint
    \/ MainExample

Spec == Init /\ [][Next]_vars

\* C3 (as stated): with fewer than two draws the pipeline (analyze, and main
\* driving it) produces no summary and no exception escapes.
C3_InsufficientData ==
    (pc = "done" /\ Len(draws) < 2) =>
        (outcome = "returned" /\ S = None)

\* the list pairs is live: analyze is running or has run
PairsLive ==
    \/ entry = "analyze"
    \/ pc \in {"analyze_loop", "main_print", "main_example"}
    \/ (pc = "done" /\ Len(draws) >= 2)

AnalyzeReturned ==
    \/ pc = "main_print"
    \/ (pc = "done" /\ entry = "analyze" /\ outcome = "returned")

C10_Pairs ==
    /\ PairsLive =>
          /\ Len(pairs) = i - 1
          /\ \A j \in 1..Len(pairs) :
                LET prev == draws[j].numbers
                    cur  == draws[j + 1].numbers
                    UU   == union_neighborhood(prev, radius, wrap, exclude_center)
                IN  /\ j + 1 <= Len(draws)
                    /\ pairs[j].U_size = Cardinality(UU)
                    /\ pairs[j].hits = Cardinality(Range(cur) \cap UU)
                    /\ pairs[j].exp = Rat(Len(cur) * Cardinality(UU), 49)
    /\ (AnalyzeReturned /\ Len(draws) >= 2) =>
          /\ Len(pairs) = Len(draws) - 1
          /\ S.pairs = Len(draws) - 1

\* C10: for m >= 2 draws analyze computes exactly m - 1 PairResults, the
\* i-th from previous d_(i-1) and current d_i with the union built from the
\* previous draw's numbers only; pair_count = m - 1; the draws are not
\* modified.
C10_ConsecutivePairs == [] C10_Pairs /\ [][draws' = draws]_vars

C10_Witness ==
    /\ pc = "done" /\ entry = "analyze"
    /\ Len(draws) = 3 /\ Len(pairs) = 2 /\ S.pairs = 2
    /\ draws[1].numbers = << 1, 6 >>
    /\ draws[2].numbers = << 3, 11, 17, 24, 32, 40, 49 >>
    /\ radius = 1 /\ wrap = FALSE /\ exclude_center = FALSE
    /\ pairs[1].U_size = 10 /\ pairs[1].hits = 2

====
